---- MODULE Spec2Model ----
(***************************************************************************)
(* Asynchronous search resolution of the travel-content proxy (app.py):   *)
(* flight_search / train_search create a search resource, extract its id  *)
(* from the Location header and poll the offers endpoint                  *)
(* (poll_for_offers / poll_for_train_offers).                             *)
(*                                                                         *)
(* Strings are sequences of atoms.  An atom is either a single character  *)
(* ("/", " ", "{", "}") or a fixed run of characters that the code only   *)
(* ever compares as a whole ("offers", "flight_search_", ...).            *)
(***************************************************************************)
EXTENDS Integers, Sequences, FiniteSets, TLC

\* ----------------------------------------------------------------- bounds
\* longest Location path drawn for a creation response, in segments
MaxSegs == 3
\* longest upstream response body, in atoms
MaxBodyLen == 3
\* how far past MAX_POLL_ATTEMPTS the attempt counter is tracked exactly
ExtraAttempts == 2
\* MAX_POLL_ATTEMPTS = int(os.getenv("MAX_POLL_ATTEMPTS", 12)): the attempt
\* budget is configuration; the model runs with the environment setting it
\* to a small value
MAX_POLL_ATTEMPTS == 3

CONTENT_API_BASE == "https://content-api.sandbox.junction.dev"

Kinds == {"flight", "train"}

\* resource-kind token of the creation URL and of the Location path
KindToken(k) == IF k = "flight" THEN "flight-searches" ELSE "train-searches"

\* id prefix a handle must start with
IdPrefix(k) == IF k = "flight" THEN "flight_search_" ELSE "train_search_"

None == [t |-> "None"]

\* ------------------------------------------------------- string functions
\* str.strip(c): drop leading and trailing atoms equal to one of cs
RECURSIVE LStrip(_, _)
LStrip(s, cs) ==
    IF s # <<>> /\ Head(s) \in cs THEN LStrip(Tail(s), cs) ELSE s

RECURSIVE RStrip(_, _)
RStrip(s, cs) ==
    IF s # <<>> /\ s[Len(s)] \in cs
    THEN RStrip(SubSeq(s, 1, Len(s) - 1), cs)
    ELSE s

Strip(s, cs) == RStrip(LStrip(s, cs), cs)

\* str.split(c): always at least one part; "" splits into [""]
RECURSIVE SplitAcc(_, _, _)
SplitAcc(s, c, cur) ==
    IF s = <<>> THEN <<cur>>
    ELSE IF Head(s) = c THEN <<cur>> \o SplitAcc(Tail(s), c, <<>>)
    ELSE SplitAcc(Tail(s), c, Append(cur, Head(s)))

Split(s, c) == SplitAcc(s, c, <<>>)

\* str.startswith(prefix) for a one-atom prefix
StartsWith(s, p) == Len(s) >= 1 /\ s[1] = p

\* str.endswith(suffix) for a one-atom suffix
EndsWith(s, p) == Len(s) >= 1 /\ s[Len(s)] = p

\* "/".join(segs)
RECURSIVE Join(_)
Join(segs) ==
    IF segs = <<>> THEN <<>>
    ELSE IF Len(segs) = 1 THEN segs[1]
    ELSE segs[1] \o <<"/">> \o Join(Tail(segs))

\* ------------------------------------------------------------ extraction
\* ExtractId with the prefix test of the direct shape left out
ExtractId_NoPrefixTest(k, loc) ==
    IF loc = <<>> THEN [t |-> "NoMatch"]
    ELSE
      LET parts == Split(Strip(loc, {"/"}), "/")
          n == Len(parts)
          accept(cand) == IF StartsWith(cand, IdPrefix(k))
                          THEN [t |-> "Match", id |-> cand]
                          ELSE [t |-> "NoMatch"]
          direct == IF n < 2 THEN [t |-> "IndexError"]
                    ELSE IF parts[n - 1] = <<KindToken(k)>>
                         THEN [t |-> "Match", id |-> parts[n]]
                         ELSE [t |-> "NoMatch"]
      IN IF n >= 2 /\ parts[n] = <<"offers">>
         THEN IF n < 3 THEN [t |-> "IndexError"]
              ELSE IF parts[n - 2] = <<KindToken(k)>>
                   THEN accept(parts[n - 1])
                   ELSE direct
         ELSE direct

\* The handle extraction of flight_search and of train_search.  The result
\* is the matched id, no match, or the IndexError that parts[-2] / parts[-3]
\* raises on a list that is too short.
\* the extraction of flight_search
ExtractFlightId(loc) ==
    IF loc = <<>> THEN [t |-> "NoMatch"]
    ELSE
      LET parts == Split(Strip(loc, {"/"}), "/")
          n == Len(parts)
          accept(cand) == IF StartsWith(cand, "flight_search_")
                          THEN [t |-> "Match", id |-> cand]
                          ELSE [t |-> "NoMatch"]
          direct == IF n < 2 THEN [t |-> "IndexError"]
                    ELSE IF parts[n - 1] = <<"flight-searches">>
                         THEN accept(parts[n])
                         ELSE [t |-> "NoMatch"]
      IN IF n >= 2 /\ parts[n] = <<"offers">>
         THEN IF n < 3 THEN [t |-> "IndexError"]
              ELSE IF parts[n - 2] = <<"flight-searches">>
                   THEN accept(parts[n - 1])
                   ELSE direct
         ELSE direct

\* the extraction of train_search
ExtractTrainId(loc) ==
    IF loc = <<>> THEN [t |-> "NoMatch"]
    ELSE
      LET parts == Split(Strip(loc, {"/"}), "/")
          n == Len(parts)
          accept(cand) == IF StartsWith(cand, "train_search_")
                          THEN [t |-> "Match", id |-> cand]
                          ELSE [t |-> "NoMatch"]
          direct == IF n < 2 THEN [t |-> "IndexError"]
                    ELSE IF parts[n - 1] = <<"train-searches">>
                         THEN accept(parts[n])
                         ELSE [t |-> "NoMatch"]
      IN IF n >= 2 /\ parts[n] = <<"offers">>
         THEN IF n < 3 THEN [t |-> "IndexError"]
              ELSE IF parts[n - 2] = <<"train-searches">>
                   THEN accept(parts[n - 1])
                   ELSE direct
         ELSE direct

\* the extraction of the handler serving kind k
ExtractId(k, loc) ==
    IF k = "flight" THEN ExtractFlightId(loc) ELSE ExtractTrainId(loc)

\* ------------------------------------------------------------------ JSON
Obj(members) == [t |-> "Object", members |-> members]
Arr == [t |-> "Array"]

\* the default result body {"items": []}
ItemsEmpty == Obj(<<"\"items\":[]">>)

\* member atoms that may occur in an upstream body
Members == {"\"a\":1"}

\* atoms of an upstream body: whitespace, braces, an empty array, a member
\* (which on its own, outside braces, is plain text and not JSON)
BodyAtoms == {" ", "{", "}", "[]"} \cup Members

RECURSIVE SeqsUpTo(_, _)
SeqsUpTo(S, n) ==
    IF n = 0 THEN {<<>>}
    ELSE LET shorter == SeqsUpTo(S, n - 1)
         IN shorter \cup {Append(s, a) : s \in {x \in shorter : Len(x) = n - 1}, a \in S}

Bodies == SeqsUpTo(BodyAtoms, MaxBodyLen)

\* resp.json(): the parsed value, or the ValueError (JSONDecodeError) it raises
ParseJson(text) ==
    LET v == Strip(text, {" "})
    IN IF v = <<"[]">> THEN [ok |-> TRUE, val |-> Arr]
       ELSE IF Len(v) >= 2 /\ v[1] = "{" /\ v[Len(v)] = "}"
       THEN LET inner == Strip(SubSeq(v, 2, Len(v) - 1), {" "})
            IN IF inner = <<>> THEN [ok |-> TRUE, val |-> Obj(<<>>)]
               ELSE IF Len(inner) = 1 /\ inner[1] \in Members
               THEN [ok |-> TRUE, val |-> Obj(inner)]
               ELSE [ok |-> FALSE, val |-> None]
       ELSE [ok |-> FALSE, val |-> None]

\* Python truthiness of a parsed body / poll result
Truthy(v) ==
    CASE v.t = "None" -> FALSE
      [] v.t = "Object" -> v.members # <<>>
      [] v.t = "Array" -> FALSE
      [] OTHER -> TRUE

\* ------------------------------------------------------------- responses
\* requests.Response.ok / raise_for_status(): an error is 400..599
IsHttpError(status) == status >= 400 /\ status < 600

\* status codes werkzeug's abort() has an exception class for
AbortCodes == {400, 401, 403, 404, 405, 406, 408, 409, 410, 411, 412, 413,
               414, 415, 416, 417, 418, 422, 423, 424, 428, 429, 431, 451,
               500, 501, 502, 503, 504, 505}

\* an error description: literal text followed by an interpolated value
Msg(lit, arg) == [lit |-> <<lit>>, arg |-> arg]

\* str(e) of a werkzeug HTTPException: "<code> <name>: <description>"
StrOfAbort(msg) == [lit |-> <<"500 Internal Server Error: ">> \o msg.lit, arg |-> msg.arg]

\* response produced by an exception that escapes the view function
Unhandled == [status |-> 500, body |-> [t |-> "Unhandled"]]

\* abort(code, description): the error response, or the LookupError abort
\* raises for a code it has no exception for (an unhandled error: 500)
Abort(code, msg) ==
    IF code \in AbortCodes
    THEN [status |-> code, body |-> [t |-> "Abort", msg |-> msg]]
    ELSE Unhandled

\* jsonify(v), status
Jsonify(v, status) == [status |-> status, body |-> [t |-> "Json", val |-> v]]

\* ---------------------------------------------------------------- inputs
\* request.get_json(): no body, an empty object, search criteria
ClientBodies == {None, Obj(<<>>), Obj(<<"\"originId\":1">>)}

\* path segments an upstream Location header is built from
SegVals == { <<>>, <<"flight-searches">>, <<"train-searches">>, <<"offers">>,
             <<"flight_search_", "ABC">>, <<"train_search_", "ABC">> }

\* Location header values: absent ("") or a path of 1..MaxSegs segments
Locations == {<<>>} \cup {Join(segs) : segs \in SeqsUpTo(SegVals, MaxSegs) \ {<<>>}}

CreateStatuses == {201, 300, 402, 404, 500}
PollStatuses == {200, 202, 204, 304, 404}

\* Responses to the creation POST.  The handler reads the body only of an
\* error response and the Location header only of a non-error response; the
\* part it does not read is left empty.
CreateResponses ==
    {[status |-> st, loc |-> <<>>, text |-> tx] :
        st \in {c \in CreateStatuses : IsHttpError(c)}, tx \in Bodies}
    \cup
    {[status |-> st, loc |-> lc, text |-> <<>>] :
        st \in {c \in CreateStatuses : ~IsHttpError(c)}, lc \in Locations}

\* Responses to a status GET.  The poller reads the body of a 200 and the
\* handler that of an error response; no code reads the body of another
\* status, which is left empty.
PollResponses ==
    {[status |-> st, text |-> tx] :
        st \in {c \in PollStatuses : c = 200 \/ IsHttpError(c)}, tx \in Bodies}
    \cup
    {[status |-> st, text |-> <<>>] :
        st \in {c \in PollStatuses : c # 200 /\ ~IsHttpError(c)}}

\* -------------------------------------------------------------- counters
\* attempts and request counts are exact up to MAX_POLL_ATTEMPTS +
\* ExtraAttempts; past that they cycle through values above
\* MAX_POLL_ATTEMPTS (every comparison the code makes is unaffected)
CountCap == MAX_POLL_ATTEMPTS + ExtraAttempts
Bump(n) == IF n < CountCap THEN n + 1 ELSE MAX_POLL_ATTEMPTS + 1

\* ----------------------------------------------------------------- state
VARIABLES
    kind,         \* which handler serves the request: flight_search / train_search
    reqBody,      \* request.get_json()
    state,        \* position of the search in its state machine
    createCalls,  \* creation POSTs sent upstream
    statusCalls,  \* status GETs sent upstream by the poll loop
    attempts,     \* the poll loop's attempts counter
    sleeps,       \* time.sleep(POLL_INTERVAL) calls made by the poll loop
    cresp,        \* response to the creation POST
    search_id,    \* extracted handle (match / train_search_id)
    presp,        \* response to the latest status GET
    pollOutcome,  \* how the poll loop ended
    response,     \* response sent to the client
    pollUrl,      \* url of the latest status GET
    cancellation, \* the request_cancellation handler serving a request
    places,       \* the get_places handler serving a request
    conc,         \* search handlers serving requests concurrently
    eq            \* both variants of extractor and poller run side by side

\* state of the handlers other than the single search handler
otherVars == <<cancellation, places, conc, eq>>

vars == <<kind, reqBody, state, createCalls, statusCalls, attempts, sleeps,
          cresp, search_id, presp, pollOutcome, response, pollUrl,
          cancellation, places, conc, eq>>

TerminalStates == {"BadRequest", "CreationFailed", "ExtractionFailed",
                   "Ready", "Empty", "Failed"}

Init ==
    /\ kind \in Kinds
    /\ reqBody \in ClientBodies
    /\ state = "Created"
    /\ createCalls = 0
    /\ statusCalls = 0
    /\ attempts = 0
    /\ sleeps = 0
    /\ cresp = None
    /\ search_id = None
    /\ presp = None
    /\ pollOutcome = None
    /\ response = None
    /\ pollUrl = <<>>
    /\ cancellation = None
    /\ places = None
    /\ conc = None
    /\ eq = None

\* no search request is being served
SearchIdle ==
    /\ kind = "flight"
    /\ reqBody = None
    /\ state = "Idle"
    /\ createCalls = 0
    /\ statusCalls = 0
    /\ attempts = 0
    /\ sleeps = 0
    /\ cresp = None
    /\ search_id = None
    /\ presp = None
    /\ pollOutcome = None
    /\ response = None
    /\ pollUrl = <<>>

searchVars == <<kind, reqBody, state, createCalls, statusCalls, attempts,
                sleeps, cresp, search_id, presp, pollOutcome, response, pollUrl>>

\* ------------------------------------------------------------ validation
\* InvalidBody testing `body is None` instead of `not body`
InvalidBody_NoneOnly(body) == body = None

\* `if not body: abort(400, "Invalid JSON")`
InvalidBody(body) == ~Truthy(body)

\* the handler rejects the request before any upstream call
RejectBody ==
    /\ state = "Created"
    /\ InvalidBody(reqBody)
    /\ state' = "BadRequest"
    /\ response' = Abort(400, Msg("Invalid JSON", <<>>))
    /\ UNCHANGED <<kind, reqBody, createCalls, statusCalls, attempts, sleeps,
                   cresp, search_id, presp, pollOutcome, pollUrl>>
    /\ UNCHANGED otherVars

\* requests.post(create_url, json=body, headers=headers) and its response
Submit ==
    /\ state = "Created"
    /\ ~InvalidBody(reqBody)
    /\ \E r \in CreateResponses :
         /\ cresp' = r
         /\ createCalls' = createCalls + 1
         /\ state' = "Submitted"
    /\ UNCHANGED <<kind, reqBody, statusCalls, attempts, sleeps, search_id,
                   presp, pollOutcome, response, pollUrl>>
    /\ UNCHANGED otherVars

\* -------------------------------------------------------------- creation
\* RelayError never relaying the upstream JSON body
RelayError_NoJson(resp) ==
    Jsonify([t |-> "ErrorObject", error |-> "Upstream API error",
             details |-> resp.text], resp.status)

\* train_search's `except requests.exceptions.HTTPError` handler
RelayError(resp) ==
    LET p == ParseJson(resp.text)
    IN IF p.ok THEN Jsonify(p.val, resp.status)
       ELSE Jsonify([t |-> "ErrorObject", error |-> "Upstream API error",
                     details |-> resp.text], resp.status)

ExtractFailedMsg(loc) ==
    Msg("Could not reliably extract search id from Location header. Received: ", loc)

\* What the handler does with the creation response: the error check, the
\* extraction and the abort on a failed extraction.
CreationStep(k, resp) ==
    IF IsHttpError(resp.status)
    THEN [state |-> "CreationFailed", id |-> None,
          response |-> IF k = "flight"
                       THEN Abort(resp.status,
                                  Msg("Search creation failed: ", resp.text))
                       ELSE RelayError(resp)]
    ELSE LET ex == ExtractId(k, resp.loc)
         IN CASE ex.t = "Match" ->
                   [state |-> "Polling", id |-> [t |-> "Id", val |-> ex.id],
                    response |-> None]
              [] ex.t = "NoMatch" ->
                   [state |-> "ExtractionFailed", id |-> None,
                    response |-> IF k = "flight"
                                 THEN Abort(500, ExtractFailedMsg(resp.loc))
                                 ELSE Abort(500, StrOfAbort(ExtractFailedMsg(resp.loc)))]
              [] ex.t = "IndexError" ->
                   [state |-> "ExtractionFailed", id |-> None,
                    response |-> IF k = "flight"
                                 THEN Unhandled
                                 ELSE Abort(500, Msg("list index out of range", <<>>))]

HandleCreation ==
    /\ state = "Submitted"
    /\ LET step == CreationStep(kind, cresp)
       IN /\ state' = step.state
          /\ search_id' = step.id
          /\ response' = step.response
    /\ UNCHANGED <<kind, reqBody, createCalls, statusCalls, attempts, sleeps,
                   cresp, presp, pollOutcome, pollUrl>>
    /\ UNCHANGED otherVars

\* --------------------------------------------------------------- polling
\* PollStep with the endswith("}") test left out
PollStep_NoEndsWith(att, resp) ==
    IF resp.status = 200
    THEN LET text == Strip(resp.text, {" "})
         IN IF StartsWith(text, "{")
            THEN LET p == ParseJson(resp.text)
                 IN IF p.ok THEN [t |-> "Return", val |-> p.val]
                    ELSE [t |-> "Raise", exc |-> "JSONDecodeError"]
            ELSE [t |-> "Return", val |-> None]
    ELSE IF resp.status = 202 /\ att < MAX_POLL_ATTEMPTS
    THEN [t |-> "Sleep"]
    ELSE IF IsHttpError(resp.status)
    THEN [t |-> "Raise", exc |-> "HTTPError"]
    ELSE [t |-> "Loop"]

\* One iteration of the `while True` loop of poll_for_offers, after `attempts += 1` and the GET: att is the
\* incremented counter, resp the response.  The iteration returns a value,
\* raises, sleeps and retries, or (raise_for_status() on a status that is
\* not an error) falls through to the next iteration without sleeping.
PollStep(att, resp) ==
    IF resp.status = 200
    THEN LET text == Strip(resp.text, {" "})
         IN IF StartsWith(text, "{") /\ EndsWith(text, "}")
            THEN LET p == ParseJson(resp.text)
                 IN IF p.ok THEN [t |-> "Return", val |-> p.val]
                    ELSE [t |-> "Raise", exc |-> "JSONDecodeError"]
            ELSE [t |-> "Return", val |-> None]
    ELSE IF resp.status = 202 /\ att < MAX_POLL_ATTEMPTS
    THEN [t |-> "Sleep"]
    ELSE IF IsHttpError(resp.status)
    THEN [t |-> "Raise", exc |-> "HTTPError"]
    ELSE [t |-> "Loop"]

\* PollUrl with the flight path used for both variants
PollUrl_FlightPath(k, id) ==
    <<"https://content-api.sandbox.junction.dev", "/", "flight-searches", "/">>
        \o id \o <<"/", "offers">>

\* url = f"{CONTENT_API_BASE}/flight-searches/{search_id}/offers" and
\* url = f"{CONTENT_API_BASE}/train-searches/{train_search_id}/offers"
PollUrl(k, id) ==
    IF k = "flight"
    THEN <<CONTENT_API_BASE, "/", "flight-searches", "/">> \o id \o <<"/", "offers">>
    ELSE <<CONTENT_API_BASE, "/", "train-searches", "/">> \o id \o <<"/", "offers">>

\* PollTrainStep retrying while attempts <= MAX_POLL_ATTEMPTS
PollTrainStep_OffByOne(att, resp) ==
    IF resp.status = 200
    THEN LET text == Strip(resp.text, {" "})
         IN IF StartsWith(text, "{") /\ EndsWith(text, "}")
            THEN LET p == ParseJson(resp.text)
                 IN IF p.ok THEN [t |-> "Return", val |-> p.val]
                    ELSE [t |-> "Raise", exc |-> "JSONDecodeError"]
            ELSE [t |-> "Return", val |-> None]
    ELSE IF resp.status = 202 /\ att <= MAX_POLL_ATTEMPTS
    THEN [t |-> "Sleep"]
    ELSE IF IsHttpError(resp.status)
    THEN [t |-> "Raise", exc |-> "HTTPError"]
    ELSE [t |-> "Loop"]

\* One iteration of the `while True` loop of poll_for_train_offers
PollTrainStep(att, resp) ==
    IF resp.status = 200
    THEN LET text == Strip(resp.text, {" "})
         IN IF StartsWith(text, "{") /\ EndsWith(text, "}")
            THEN LET p == ParseJson(resp.text)
                 IN IF p.ok THEN [t |-> "Return", val |-> p.val]
                    ELSE [t |-> "Raise", exc |-> "JSONDecodeError"]
            ELSE [t |-> "Return", val |-> None]
    ELSE IF resp.status = 202 /\ att < MAX_POLL_ATTEMPTS
    THEN [t |-> "Sleep"]
    ELSE IF IsHttpError(resp.status)
    THEN [t |-> "Raise", exc |-> "HTTPError"]
    ELSE [t |-> "Loop"]

\* `return jsonify(offers or {"items": []})`
OffersResponse(offers) ==
    Jsonify(IF Truthy(offers) THEN offers ELSE ItemsEmpty, 200)

\* What the handler answers when the poll loop raises: flight_search lets
\* the exception escape; train_search relays an HTTPError and turns any
\* other exception into abort(500, str(e)).
PollErrorResponse(k, exc, resp) ==
    IF k = "flight" THEN Unhandled
    ELSE IF exc = "HTTPError" THEN RelayError(resp)
    ELSE Abort(500, Msg("Expecting value", <<>>))

PollAttempt ==
    /\ state = "Polling"
    /\ \E resp \in PollResponses :
         LET att == Bump(attempts)
             step == IF kind = "flight" THEN PollStep(att, resp)
                     ELSE PollTrainStep(att, resp)
         IN /\ attempts' = att
            /\ statusCalls' = Bump(statusCalls)
            /\ pollUrl' = PollUrl(kind, search_id.val)
            /\ presp' = resp
            /\ sleeps' = IF step.t = "Sleep" THEN sleeps + 1 ELSE sleeps
            /\ CASE step.t \in {"Sleep", "Loop"} ->
                      UNCHANGED <<state, pollOutcome, response>>
                 [] step.t = "Return" ->
                      /\ pollOutcome' = IF step.val = None
                                        THEN [t |-> "Empty"]
                                        ELSE [t |-> "Ready", payload |-> step.val]
                      /\ state' = IF step.val = None THEN "Empty" ELSE "Ready"
                      /\ response' = OffersResponse(step.val)
                 [] step.t = "Raise" ->
                      /\ pollOutcome' = IF step.exc = "HTTPError"
                                        THEN [t |-> "Failed", status |-> resp.status,
                                              body |-> resp.text]
                                        ELSE [t |-> "ParseError"]
                      /\ state' = "Failed"
                      /\ response' = PollErrorResponse(kind, step.exc, resp)
    /\ UNCHANGED <<kind, reqBody, createCalls, cresp, search_id>>
    /\ UNCHANGED otherVars

Next == RejectBody \/ Submit \/ HandleCreation \/ PollAttempt

Spec == Init /\ [][Next]_vars

\* every handler keeps running until it has answered
FairSpec == Spec /\ WF_vars(Next)

TypeOK ==
    /\ kind \in Kinds
    /\ state \in {"Created", "Submitted", "Polling"} \cup TerminalStates
    /\ createCalls \in 0..1
    /\ statusCalls \in 0..CountCap
    /\ attempts \in 0..CountCap
    /\ sleeps \in 0..MAX_POLL_ATTEMPTS

\* ========================================================== cancellation
\* request.get_json() of POST /cancellations/request
CancelPayloads == {None, Obj(<<>>), Obj(<<"\"reason\":1">>),
                   Obj(<<"\"bookingId\":\"b1\"">>)}

\* `"bookingId" in payload`
HasBookingId(payload) ==
    /\ payload.t = "Object"
    /\ \E i \in 1..Len(payload.members) : payload.members[i] = "\"bookingId\":\"b1\""

\* `if not payload or "bookingId" not in payload`
InvalidCancelPayload(payload) == ~Truthy(payload) \/ ~HasBookingId(payload)

\* exceptions requests.post(..., timeout=15) raises on a transport failure
TransportErrors == {"ConnectTimeout", "ReadTimeout", "ConnectionError",
                    "TooManyRedirects"}

\* isinstance(e, requests.exceptions.Timeout)
IsTimeout(exc) == exc \in {"ConnectTimeout", "ReadTimeout"}

CancelStatuses == {200, 404}

\* what the upstream call of the cancellation handler can end in
CancelUpstream ==
    {[t |-> "Response", status |-> st, text |-> tx] : st \in CancelStatuses, tx \in Bodies}
    \cup {[t |-> "Raised", exc |-> e] : e \in TransportErrors}

ErrorDetails(error, details) ==
    [t |-> "ErrorObject", error |-> error, details |-> details]

\* the except clauses with RequestException tested before Timeout
CancelErrorResponse_Swapped(exc) ==
    Jsonify(ErrorDetails("Network error during cancellation request",
                         Msg("str(e)", <<exc>>)), 503)

\* `except requests.exceptions.Timeout` (504), then
\* `except requests.exceptions.RequestException` (503)
CancelErrorResponse(exc) ==
    IF IsTimeout(exc)
    THEN Jsonify(ErrorDetails("Cancellation request timed out",
                              Msg("Timeout after 15 seconds for ",
                                  <<CONTENT_API_BASE, "/cancellations/request">>)), 504)
    ELSE Jsonify(ErrorDetails("Network error during cancellation request",
                              Msg("str(e)", <<exc>>)), 503)

\* The responses the handler can give to an upstream response.  A success
\* response whose body is not JSON makes resp.json() raise outside the inner
\* try: a requests.exceptions.JSONDecodeError (a RequestException: 503) or,
\* with an older requests, a plain ValueError (500).
CancelResponses(up) ==
    LET p == ParseJson(up.text)
    IN IF IsHttpError(up.status)
       THEN {IF p.ok THEN Jsonify(p.val, up.status)
             ELSE Jsonify(ErrorDetails("Cancellation request failed", up.text),
                          up.status)}
       ELSE IF p.ok THEN {Jsonify(p.val, up.status)}
       ELSE {Jsonify(ErrorDetails("Network error during cancellation request",
                                  Msg("str(e)", <<"JSONDecodeError">>)), 503),
             Jsonify(ErrorDetails("An unexpected error occurred",
                                  Msg("str(e)", <<"JSONDecodeError">>)), 500)}

CancelInit ==
    /\ SearchIdle
    /\ cancellation \in {[state |-> "Received", payload |-> pl, calls |-> 0,
                          upstream |-> None, response |-> None] : pl \in CancelPayloads}
    /\ places = None
    /\ conc = None
    /\ eq = None

\* abort(400, "Invalid JSON or missing bookingId")
CancelReject ==
    /\ cancellation.state = "Received"
    /\ InvalidCancelPayload(cancellation.payload)
    /\ cancellation' = [cancellation EXCEPT
                          !.state = "Done",
                          !.response = Abort(400, Msg("Invalid JSON or missing bookingId", <<>>))]
    /\ UNCHANGED <<searchVars, places, conc, eq>>

\* requests.post(url, json=payload, headers=headers, timeout=15)
CancelCall ==
    /\ cancellation.state = "Received"
    /\ ~InvalidCancelPayload(cancellation.payload)
    /\ \E up \in CancelUpstream :
         cancellation' = [cancellation EXCEPT
                            !.state = "Called", !.calls = 1, !.upstream = up]
    /\ UNCHANGED <<searchVars, places, conc, eq>>

\* the handler's answer to the outcome of the upstream call
CancelRespond ==
    /\ cancellation.state = "Called"
    /\ \E r \in (IF cancellation.upstream.t = "Raised"
                 THEN {CancelErrorResponse(cancellation.upstream.exc)}
                 ELSE CancelResponses(cancellation.upstream)) :
         cancellation' = [cancellation EXCEPT !.state = "Done", !.response = r]
    /\ UNCHANGED <<searchVars, places, conc, eq>>

CancelNext == CancelReject \/ CancelCall \/ CancelRespond

CancelSpec == CancelInit /\ [][CancelNext]_vars

\* ================================================================ places
\* characters of the iata query parameter: whitespace, a letter, and a
\* letter whose upper-case form is two characters long ("ß".upper() == "SS")
IataAtoms == {" ", "a", "eszett"}

\* longest iata query parameter, in characters
MaxIataLen == 4

IataInputs == SeqsUpTo(IataAtoms, MaxIataLen)

\* str.upper()
RECURSIVE Upper(_)
Upper(str) ==
    IF str = <<>> THEN <<>>
    ELSE (CASE Head(str) = "a" -> <<"A">>
            [] Head(str) = "eszett" -> <<"S", "S">>
            [] OTHER -> <<Head(str)>>) \o Upper(Tail(str))

\* the length test accepting codes shorter than 3 characters as well
WrongLength_Over3(iata) == Len(iata) > 3

\* `if len(iata) != 3`
WrongLength(iata) == Len(iata) # 3

PlacesStatuses == {200, 404}

PlacesUpstream == [status : PlacesStatuses, text : Bodies]

\* the answer of get_places to the upstream response: resp.json() on a body
\* that is not JSON and data.get on a body that is not an object raise
PlacesResponse(up) ==
    IF IsHttpError(up.status) THEN Jsonify(ItemsEmpty, up.status)
    ELSE LET p == ParseJson(up.text)
         IN IF p.ok /\ p.val.t = "Object" THEN Jsonify(ItemsEmpty, 200)
            ELSE Unhandled

PlacesInit ==
    /\ SearchIdle
    /\ cancellation = None
    /\ places \in {[state |-> "Received", raw |-> r, iata |-> <<>>, calls |-> 0,
                    upstream |-> None, response |-> None] : r \in IataInputs}
    /\ conc = None
    /\ eq = None

\* iata = request.args.get("iata", "").strip().upper(), then either the
\* short-circuit answer or the upstream GET and its response
PlacesLookup ==
    /\ places.state = "Received"
    /\ LET iata == Upper(Strip(places.raw, {" "}))
       IN IF WrongLength(iata)
          THEN places' = [places EXCEPT !.state = "Done", !.iata = iata,
                                        !.response = Jsonify(ItemsEmpty, 200)]
          ELSE \E up \in PlacesUpstream :
                 places' = [places EXCEPT !.state = "Called", !.iata = iata,
                                          !.calls = places.calls + 1,
                                          !.upstream = up]
    /\ UNCHANGED <<searchVars, cancellation, conc, eq>>

PlacesRespond ==
    /\ places.state = "Called"
    /\ places' = [places EXCEPT !.state = "Done",
                                !.response = PlacesResponse(places.upstream)]
    /\ UNCHANGED <<searchVars, cancellation, conc, eq>>

PlacesNext == PlacesLookup \/ PlacesRespond

PlacesSpec == PlacesInit /\ [][PlacesNext]_vars

\* ========================================================== both variants
\* a Location with the flight tokens exchanged for the train tokens
SwapAtom(a) ==
    CASE a = "flight-searches" -> "train-searches"
      [] a = "train-searches" -> "flight-searches"
      [] a = "flight_search_" -> "train_search_"
      [] a = "train_search_" -> "flight_search_"
      [] OTHER -> a

SwapTokens(str) == [i \in 1..Len(str) |-> SwapAtom(str[i])]

\* a poll loop before its first iteration
FreshLoop == [st |-> "running", attempts |-> 0, calls |-> 0, sleeps |-> 0,
              result |-> None]

\* a poll loop after the iteration that received resp, step being what the
\* iteration did
LoopAfter(loop, step, resp) ==
    [st |-> CASE step.t = "Return" -> "returned"
              [] step.t = "Raise" -> "raised"
              [] OTHER -> "running",
     attempts |-> Bump(loop.attempts),
     calls |-> Bump(loop.calls),
     sleeps |-> IF step.t = "Sleep" THEN loop.sleeps + 1 ELSE loop.sleeps,
     result |-> CASE step.t = "Return" -> [t |-> "Value", val |-> step.val]
                  [] step.t = "Raise" -> [t |-> step.exc, status |-> resp.status]
                  [] OTHER -> None]

\* either the two extractors are given a Location (its flight form to
\* flight_search, its train form to train_search), or the two poll loops
\* are started
EquivInit ==
    /\ SearchIdle
    /\ cancellation = None
    /\ places = None
    /\ conc = None
    /\ eq \in {[phase |-> "extract", loc |-> lc, fid |-> None, tid |-> None,
                f |-> FreshLoop, t |-> FreshLoop] : lc \in Locations}
              \cup
              {[phase |-> "poll", loc |-> <<>>, fid |-> None, tid |-> None,
                f |-> FreshLoop, t |-> FreshLoop]}

EquivExtract ==
    /\ eq.phase = "extract"
    /\ eq' = [eq EXCEPT !.phase = "extracted",
                        !.fid = ExtractFlightId(eq.loc),
                        !.tid = ExtractTrainId(SwapTokens(eq.loc))]
    /\ UNCHANGED <<searchVars, cancellation, places, conc>>

\* the same status response is given to every loop that is still running
EquivPoll ==
    /\ eq.phase = "poll"
    /\ eq.f.st = "running" \/ eq.t.st = "running"
    /\ \E resp \in PollResponses :
         eq' = [eq EXCEPT
                  !.f = IF eq.f.st = "running"
                        THEN LoopAfter(eq.f, PollStep(Bump(eq.f.attempts), resp), resp)
                        ELSE eq.f,
                  !.t = IF eq.t.st = "running"
                        THEN LoopAfter(eq.t, PollTrainStep(Bump(eq.t.attempts), resp), resp)
                        ELSE eq.t]
    /\ UNCHANGED <<searchVars, cancellation, places, conc>>

EquivNext == EquivExtract \/ EquivPoll

EquivSpec == EquivInit /\ [][EquivNext]_vars

\* ==================================================== concurrent requests
\* Search requests served at the same time, each by its own run of
\* flight_search / train_search.  The handlers share only the module-level
\* configuration (CONTENT_API_BASE, MAX_POLL_ATTEMPTS), which no handler
\* writes; attempts, match and offers are locals of each run.
ConcReqs == {"r1", "r2"}

\* status requests a concurrent run may issue before the model stops
\* following it
ConcMaxPolls == 3

\* upstream responses given to concurrent runs
ConcCreateResponses ==
    {r \in CreateResponses :
        /\ r.text = <<>>
        /\ r.status \in {201, 404}
        /\ r.loc \in {<<>>, <<"flight-searches", "/", "flight_search_", "ABC">>,
                      <<"train-searches", "/", "train_search_", "ABC", "/", "offers">>}}

ConcPollResponses == {r \in PollResponses : r.text \in {<<>>, <<"{", "}">>}}

\* the iteration of the poll loop of the handler serving kind k
PollStepOf(k, att, resp) ==
    IF k = "flight" THEN PollStep(att, resp) ELSE PollTrainStep(att, resp)

\* position of a search whose poll loop is in the given condition
StateOfLoop(loop) ==
    CASE loop.st = "running" -> "Polling"
      [] loop.st = "raised" -> "Failed"
      [] loop.result.val = None -> "Empty"
      [] OTHER -> "Ready"

\* the counter kept in one place for all runs
LoopCounter_Shared(c, r) ==
    CHOOSE n \in {c[q].loop.attempts : q \in ConcReqs} :
        \A q \in ConcReqs : c[q].loop.attempts <= n

\* `attempts` as read by the poll loop of run r: its own local
LoopCounter(c, r) == c[r].loop.attempts

ConcInit ==
    /\ SearchIdle
    /\ cancellation = None
    /\ places = None
    /\ eq = None
    /\ conc \in [ConcReqs -> {[kind |-> k, state |-> "Created", search_id |-> None,
                               loop |-> FreshLoop, hist |-> <<>>] : k \in Kinds}]

\* run r sends its creation request and handles the response
ConcCreate(r) ==
    /\ conc[r].state = "Created"
    /\ \E resp \in ConcCreateResponses :
         LET step == CreationStep(conc[r].kind, resp)
         IN conc' = [conc EXCEPT ![r] = [@ EXCEPT !.state = step.state,
                                                   !.search_id = step.id,
                                                   !.hist = <<resp>>]]
    /\ UNCHANGED <<searchVars, cancellation, places, eq>>

\* run r makes one iteration of its poll loop
ConcPoll(r) ==
    /\ conc[r].state = "Polling"
    /\ Len(conc[r].hist) <= ConcMaxPolls
    /\ \E resp \in ConcPollResponses :
         LET cur == [conc[r].loop EXCEPT !.attempts = LoopCounter(conc, r)]
             loop == LoopAfter(cur, PollStepOf(conc[r].kind, Bump(cur.attempts), resp), resp)
         IN conc' = [conc EXCEPT ![r] = [@ EXCEPT !.loop = loop,
                                                   !.state = StateOfLoop(loop),
                                                   !.hist = Append(@, resp)]]
    /\ UNCHANGED <<searchVars, cancellation, places, eq>>

ConcNext == \E r \in ConcReqs : ConcCreate(r) \/ ConcPoll(r)

ConcSpec == ConcInit /\ [][ConcNext]_vars

\* ================================================================ claims
\* the trimmed body starts with '{' and ends with '}'
LooksLikeObject(text) ==
    LET v == Strip(text, {" "})
    IN v # <<>> /\ v[1] = "{" /\ v[Len(v)] = "}"

\* C1: a run of the poll loop issues at most MAX_POLL_ATTEMPTS status
\* requests.
C1_AtMostMaxRequests == statusCalls <= MAX_POLL_ATTEMPTS

\* C2: when each of the first MAX_POLL_ATTEMPTS status responses is 202 (the
\* loop slept after every one but the last), the loop has ended with outcome
\* Failed carrying status 202.
C2_TimeoutEndsLoop ==
    (attempts = MAX_POLL_ATTEMPTS /\ sleeps = MAX_POLL_ATTEMPTS - 1
        /\ presp.status = 202)
    => (state = "Failed" /\ pollOutcome.t = "Failed" /\ pollOutcome.status = 202)

\* C3: a status response that is neither 200 nor 202 ends the poll loop at
\* once with outcome Failed carrying that status code.
C3_OtherStatusEndsLoop ==
    (statusCalls > 0 /\ presp.status \notin {200, 202})
    => (state = "Failed" /\ pollOutcome.t = "Failed"
          /\ pollOutcome.status = presp.status)

\* C4 as stated: a 200 response ends the loop, with Ready exactly when the
\* trimmed body starts with '{' and ends with '}' and Empty otherwise.
C4_Original ==
    (statusCalls > 0 /\ presp.status = 200)
    => /\ state \in {"Ready", "Empty"}
       /\ (pollOutcome.t = "Ready") <=> LooksLikeObject(presp.text)
       /\ (pollOutcome.t = "Empty") <=> ~LooksLikeObject(presp.text)

\* C4 as amended: a 200 response ends the loop on whatever attempt it
\* arrives and no further status request follows it; the outcome is
\* Ready(payload) exactly when the trimmed body starts with '{', ends with
\* '}' and parses as JSON (payload being the parsed body), Empty exactly
\* when the trimmed body does not start with '{' and end with '}', and the
\* parse error is raised when such a body is not valid JSON.
C4_After200 ==
    (statusCalls > 0 /\ presp.status = 200)
    => /\ state \in {"Ready", "Empty", "Failed"}
       /\ (pollOutcome.t = "Ready")
            <=> (LooksLikeObject(presp.text) /\ ParseJson(presp.text).ok)
       /\ (pollOutcome.t = "Ready")
            => pollOutcome.payload = ParseJson(presp.text).val
       /\ (pollOutcome.t = "Empty") <=> ~LooksLikeObject(presp.text)
       /\ (pollOutcome.t = "ParseError")
            <=> (LooksLikeObject(presp.text) /\ ~ParseJson(presp.text).ok)

C4_NoRequestAfter200 ==
    (statusCalls > 0 /\ presp.status = 200) => statusCalls' = statusCalls

C4_Amended == []C4_After200 /\ [][C4_NoRequestAfter200]_vars

\* a 200 with a JSON object body arriving after two 202 responses
C4_Witness ==
    /\ attempts = 3 /\ sleeps = 2 /\ presp.status = 200
    /\ pollOutcome.t = "Ready" /\ pollOutcome.payload = Obj(<<"\"a\":1">>)

\* C5: every search request with a non-empty body eventually reaches one of
\* the terminal states and answers the client.
C5_EventuallyAnswered ==
    (state = "Created" /\ reqBody # None /\ reqBody # Obj(<<>>))
    ~> (state \in {"Ready", "Empty", "Failed", "CreationFailed", "ExtractionFailed"}
          /\ response # None)

\* C6: a request whose body is missing or empty is answered 400 and no
\* upstream call (creation or status) is ever made for it.
C6_BadRequestNoUpstream ==
    (reqBody = None \/ reqBody = Obj(<<>>))
    => /\ createCalls = 0 /\ statusCalls = 0
       /\ state \in {"Created", "BadRequest"}
       /\ state = "BadRequest" => response.status = 400

C6_Witness ==
    state = "BadRequest" /\ reqBody = Obj(<<>>) /\ response.status = 400

\* the Location segments: the path split on '/' after stripping leading and
\* trailing slashes
Segments(loc) == Split(Strip(loc, {"/"}), "/")

\* the handles the two accepted shapes admit for a Location
ShapeHandles(k, loc) ==
    LET segs == Segments(loc)
        n == Len(segs)
        offersShape(i) == /\ n >= 3 /\ i = n - 1
                          /\ segs[n] = <<"offers">>
                          /\ segs[n - 2] = <<KindToken(k)>>
        directShape(i) == /\ n >= 2 /\ i = n
                          /\ segs[n - 1] = <<KindToken(k)>>
    IN {segs[i] : i \in {j \in 1..n :
                           /\ segs[j] # <<>>
                           /\ segs[j][1] = IdPrefix(k)
                           /\ (offersShape(j) \/ directShape(j))}}

\* the creation response has been handled and was not an error response
Extracted ==
    state \in {"ExtractionFailed", "Polling", "Ready", "Empty", "Failed"}

\* C7: the extractor yields handle H exactly when H starts with the id
\* prefix and is the second-to-last segment of an offers shape or the last
\* segment of a direct shape; otherwise it yields no handle.
C7_HandleIffShape ==
    Extracted
    => LET hs == ShapeHandles(kind, cresp.loc)
       IN /\ \A h \in hs : search_id = [t |-> "Id", val |-> h]
          /\ hs = {} => (search_id = None /\ state = "ExtractionFailed")

\* a direct-shape Location with a trailing slash yielded its handle
C7_Witness ==
    /\ kind = "flight" /\ state = "Polling"
    /\ cresp.loc = <<"flight-searches", "/", "flight_search_", "ABC", "/">>
    /\ search_id = [t |-> "Id", val |-> <<"flight_search_", "ABC">>]

\* C8: a 2xx creation response whose Location yields no handle is answered
\* with a 500 whose message includes the raw Location value, and no status
\* request is issued.
C8_ExtractionFailure500 ==
    (state = "ExtractionFailed" /\ cresp.status \in 200..299)
    => /\ response.status = 500
       /\ response.body.t = "Abort"
       /\ response.body.msg.arg = cresp.loc
       /\ statusCalls = 0

\* C9: a creation response with a status outside 200-299 ends the search in
\* CreationFailed, answered with the upstream status code, with no handle
\* extracted and no status request issued.
C9_CreationFailure ==
    (state \notin {"Created", "Submitted", "BadRequest"}
        /\ cresp.status \notin 200..299)
    => /\ state = "CreationFailed"
       /\ response.status = cresp.status
       /\ search_id = None
       /\ statusCalls = 0

\* C10: when the poller yields Ready(payload) the response to the client is
\* that payload unchanged.
C10_ReadyPayloadAsIs ==
    pollOutcome.t = "Ready" => response = Jsonify(pollOutcome.payload, 200)

\* C11: on the flight path every poll outcome other than Ready (Empty, a
\* failed poll) is answered with the successful empty-results body
\* {items: []}, never with an error response.
C11_FlightDegradesToEmpty ==
    (kind = "flight" /\ pollOutcome.t \in {"Empty", "Failed"})
    => response = Jsonify(ItemsEmpty, 200)

\* C12: on the train path a poll that fails with an upstream error response
\* is answered with that response's status code and its JSON body when the
\* body is JSON, otherwise with an error object whose details field holds
\* the upstream text; an Empty poll outcome is answered {items: []}.
C12_TrainRelaysPollError ==
    /\ (kind = "train" /\ pollOutcome.t = "Failed")
       => /\ response.status = pollOutcome.status
          /\ response.body.t = "Json"
          /\ IF ParseJson(pollOutcome.body).ok
             THEN response.body.val = ParseJson(pollOutcome.body).val
             ELSE /\ response.body.val.t = "ErrorObject"
                  /\ response.body.val.details = pollOutcome.body
    /\ (kind = "train" /\ pollOutcome.t = "Empty")
       => response = Jsonify(ItemsEmpty, 200)

\* a 404 with a JSON object body, after one 202, relayed by train_search
C12_Witness ==
    /\ kind = "train" /\ attempts = 2 /\ pollOutcome.t = "Failed"
    /\ presp = [status |-> 404, text |-> <<"{", "\"a\":1", "}">>]
    /\ response = Jsonify(Obj(<<"\"a\":1">>), 404)

\* C15: while a search is in Polling the identifier polled starts with the
\* prefix of its domain and is a segment of the Location header of that
\* search's creation response, and the status requests go to that
\* identifier's offers endpoint.
C15_PolledIdFromLocation ==
    state = "Polling"
    => /\ search_id # None
       /\ search_id.val # <<>>
       /\ search_id.val[1] = (IF kind = "flight" THEN "flight_search_" ELSE "train_search_")
       /\ \E i \in 1..Len(Segments(cresp.loc)) : Segments(cresp.loc)[i] = search_id.val
       /\ statusCalls > 0
          => pollUrl = <<CONTENT_API_BASE, "/",
                         IF kind = "flight" THEN "flight-searches" ELSE "train-searches",
                         "/">> \o search_id.val \o <<"/", "offers">>

\* a train search polling the id taken from an offers-shape Location
C15_Witness ==
    /\ kind = "train" /\ state = "Polling" /\ statusCalls = 2
    /\ cresp.loc = <<"train-searches", "/", "train_search_", "ABC", "/", "offers">>
    /\ pollUrl = <<CONTENT_API_BASE, "/", "train-searches", "/", "train_search_", "ABC",
                   "/", "offers">>

\* C13: on POST /cancellations/request with a valid payload a timeout of
\* the upstream call is answered 504 and any other transport failure 503,
\* each with a details field.
C13_TimeoutVsNetworkError ==
    (cancellation.state = "Done" /\ cancellation.upstream # None
        /\ cancellation.upstream.t = "Raised")
    => /\ cancellation.response.body.t = "Json"
       /\ cancellation.response.body.val.t = "ErrorObject"
       /\ cancellation.response.status =
            (IF cancellation.upstream.exc \in {"ConnectTimeout", "ReadTimeout"}
             THEN 504 ELSE 503)

\* a read timeout of the upstream call answered 504
C13_Witness ==
    /\ cancellation.state = "Done"
    /\ cancellation.upstream = [t |-> "Raised", exc |-> "ReadTimeout"]
    /\ cancellation.response.status = 504

\* C14 as stated: GET /places has called the upstream lookup exactly once
\* when the trimmed iata code has exactly 3 characters; otherwise it makes
\* no upstream call and answers {items: []} with status 200.
C14_Original ==
    places.state = "Done"
    => IF Len(Strip(places.raw, {" "})) = 3
       THEN places.calls = 1
       ELSE places.calls = 0 /\ places.response = Jsonify(ItemsEmpty, 200)

\* C14 as amended: the length that decides is that of the trimmed and
\* upper-cased iata code.
C14_UpperCasedLength ==
    /\ places # None => places.calls <= 1
    /\ places.state = "Done"
       => IF Len(Upper(Strip(places.raw, {" "}))) = 3
          THEN places.calls = 1
          ELSE places.calls = 0 /\ places.response = Jsonify(ItemsEmpty, 200)

\* a padded three-letter code looked up once, and answered
C14_Witness ==
    /\ places.state = "Done" /\ places.raw = <<" ", "a", "a", "a">>
    /\ places.calls = 1 /\ places.upstream.status = 200

\* C17: within a poll loop every status request after the first follows
\* exactly one sleep: while the loop is running there have been as many
\* sleeps as requests, and once it has ended one sleep fewer than requests
\* (no sleep follows the response that ends the loop).
C17_SleepBetweenRequests ==
    /\ (state = "Polling" /\ statusCalls <= MAX_POLL_ATTEMPTS)
       => sleeps = statusCalls
    /\ (state \in {"Ready", "Empty", "Failed"} /\ statusCalls <= MAX_POLL_ATTEMPTS)
       => sleeps = statusCalls - 1

\* C18: the creation request is sent at most once per search, and a status
\* request is only ever sent after the creation request succeeded (2xx) and
\* a handle was extracted.
C18_CreateOnceThenPoll ==
    /\ createCalls <= 1
    /\ statusCalls > 0
       => /\ createCalls = 1
          /\ cresp.status \in 200..299
          /\ search_id # None

\* C19: given the same Location up to the exchange of tokens the two
\* extractors agree on the handle (or on there being none), and given the
\* same status responses the two poll loops have issued the same number of
\* requests and sleeps and have ended, or not, with the same outcome.
C19_VariantsAgree ==
    /\ eq.phase = "extracted"
       => /\ (eq.fid.t = "Match") <=> (eq.tid.t = "Match")
          /\ eq.fid.t = "Match" => eq.tid.id = SwapTokens(eq.fid.id)
    /\ eq.phase = "poll"
       => /\ eq.f.calls = eq.t.calls
          /\ eq.f.sleeps = eq.t.sleeps
          /\ eq.f.st = eq.t.st
          /\ eq.f.result = eq.t.result

\* both loops timed out twice, then returned the same payload
C19_Witness ==
    /\ eq.phase = "poll" /\ eq.t.calls = 3 /\ eq.t.sleeps = 2
    /\ eq.t.st = "returned" /\ eq.f.st = "returned"
    /\ eq.t.result = [t |-> "Value", val |-> Obj(<<"\"a\":1">>)]

\* a search of kind k served alone, given the upstream responses hist
RECURSIVE AloneAfter(_, _)
AloneAfter(k, hist) ==
    IF hist = <<>>
    THEN [kind |-> k, state |-> "Created", search_id |-> None, loop |-> FreshLoop]
    ELSE IF Len(hist) = 1
    THEN LET step == CreationStep(k, hist[1])
         IN [kind |-> k, state |-> step.state, search_id |-> step.id,
             loop |-> FreshLoop]
    ELSE LET before == AloneAfter(k, SubSeq(hist, 1, Len(hist) - 1))
             resp == hist[Len(hist)]
             loop == LoopAfter(before.loop,
                               PollStepOf(k, Bump(before.loop.attempts), resp), resp)
         IN [before EXCEPT !.loop = loop, !.state = StateOfLoop(loop)]

\* C16: under every interleaving of concurrent search requests, the attempt
\* counter, the extracted handle and the outcome of each request are those
\* of the same request served alone with the same upstream responses.
C16_RequestsIndependent ==
    \A r \in ConcReqs :
        [kind |-> conc[r].kind, state |-> conc[r].state,
         search_id |-> conc[r].search_id, loop |-> conc[r].loop]
          = AloneAfter(conc[r].kind, conc[r].hist)

\* two runs polling at the same time, with different attempt counts
C16_Witness ==
    /\ conc["r1"].state = "Polling" /\ conc["r1"].loop.attempts = 2
    /\ conc["r2"].state = "Ready" /\ conc["r2"].loop.attempts = 1

====
